---- MODULE Spec2Model ----
(***************************************************************************)
(* shopify-mcp: the OAuth token acquisition (oauth.ts: the local callback  *)
(* listener, the token exchange, the on-disk credential store), the        *)
(* startup in index.ts, and the bulk export tools (start-bulk-export,       *)
(* get-bulk-operation-status, get-bulk-operation-results).                 *)
(***************************************************************************)
EXTENDS Integers, Sequences, FiniteSets, TLC

(***************************************************************************)
(* Bounds and small input sets.                                            *)
(***************************************************************************)
\* number of HTTP requests the environment sends to the callback port
MaxRequests == 2

\* null / undefined / absent query parameter
NULL == "null"

Domains == {"a.myshopify.com", "b.myshopify.com"}

AccessTokens == {"shpat_1", "shpat_2"}

Scopes == {"read_products", "read_products,write_products"}

Times == {"T1"}

\* values of the state nonce (crypto.randomBytes(16).toString("hex"))
Nonces == {"n1", "n2"}

\* query parameter values of a request to the callback port
Codes == {NULL, "", "code1"}

Shops == {NULL, "a.myshopify.com"}

\* the requests the environment can send: any path other than /callback is
\* represented by /favicon.ico
Requests ==
  [path : {"/callback"}, state : Nonces \cup {NULL}, code : Codes, shop : Shops]
    \cup [path : {"/favicon.ico"}, state : {NULL}, code : {NULL}, shop : {NULL}]

\* responses of the token endpoint: ok with a JSON body, not ok, or no response
Responses ==
  [kind : {"ok"}, access_token : AccessTokens, scope : Scopes]
    \cup [kind : {"notok", "neterr"}, access_token : {NULL}, scope : {NULL}]


\* TokenData (interface): access_token, scope, obtained_at
TokenData == [access_token : AccessTokens, scope : Scopes, obtained_at : Times]

\* null / undefined where a TokenData is expected
NoToken == [access_token |-> NULL, scope |-> NULL, obtained_at |-> NULL]

\* no {code, shop} value, no request
NoCallback == [code |-> NULL, shop |-> NULL]

NoRequest == [path |-> NULL, state |-> NULL, code |-> NULL, shop |-> NULL]

NoResponse == [kind |-> "none", access_token |-> NULL, scope |-> NULL]

(***************************************************************************)
(* The credential file and the JavaScript values read from it.             *)
(*                                                                         *)
(* A file is absent or holds text.  Text is either not JSON ("garbage":    *)
(* empty, truncated, ...) or the JSON text of null, of a number, of an     *)
(* array or of an object.  An object is the sequence of its own            *)
(* properties in insertion order, which is the order JSON.stringify        *)
(* writes and JSON.parse restores.  A parsed array carries the named       *)
(* (non-index) properties assigned to it in memory; they are not part of   *)
(* its JSON text.                                                          *)
(***************************************************************************)
FileAbsent == [kind |-> "absent", entries |-> << >>]

Garbage == [kind |-> "garbage", entries |-> << >>]

JsonNull == [kind |-> "null", entries |-> << >>]

JsonNumber == [kind |-> "number", entries |-> << >>]

JsonArray == [kind |-> "array", entries |-> << >>]

EmptyObject == [kind |-> "object", entries |-> << >>]

\* fs.existsSync(TOKEN_FILE)
existsSync(f) == f.kind # "absent"

\* JSON.parse(fs.readFileSync(TOKEN_FILE, "utf-8")): throws on text that is not JSON
JSONparse(f) ==
  IF f.kind = "garbage"
    THEN [threw |-> TRUE, value |-> FileAbsent]
    ELSE [threw |-> FALSE, value |-> f]

\* JSON.stringify(tokens, null, 2): an array is written by its elements only,
\* so the named properties set on it are dropped
JSONstringify(v) ==
  IF v.kind = "array" THEN [kind |-> "array", entries |-> << >>] ELSE v

\* index of own property k in an object's property list, 0 if none
IndexOf(entries, k) ==
  IF \E i \in 1..Len(entries) : entries[i].key = k
    THEN CHOOSE i \in 1..Len(entries) : entries[i].key = k
    ELSE 0

\* tokens[domain] (read): undefined for a missing property and for any
\* property of a number; the domains are no array index and no inherited name
GetProp(v, k) ==
  IF v.kind \in {"object", "array"} /\ IndexOf(v.entries, k) # 0
    THEN v.entries[IndexOf(v.entries, k)].value
    ELSE NoToken

\* tokens[domain] = tokenData (write) on an object or an array: an existing
\* property keeps its place, a new one is added last
SetProp(v, k, x) ==
  IF IndexOf(v.entries, k) # 0
    THEN [v EXCEPT !.entries[IndexOf(v.entries, k)].value = x]
    ELSE [v EXCEPT !.entries = Append(@, [key |-> k, value |-> x])]

\* the property assignment throws a TypeError on null and, in module (strict)
\* code, on a primitive
AssignThrows(v) == v.kind \in {"null", "number"}

(***************************************************************************)
(* saveToken and loadToken as functions of the file's content.             *)
(***************************************************************************)
\* let tokens = {}; if the file exists: try { tokens = JSON.parse(...) } catch { tokens = {} }
ExistingTokens(f) ==
  IF existsSync(f)
    THEN IF JSONparse(f).threw THEN EmptyObject ELSE JSONparse(f).value
    ELSE EmptyObject

\* mutant: the existing file is not read, the new store holds this domain only
saveToken_Fresh(f, d, r) ==
  [threw |-> FALSE, file |-> JSONstringify(SetProp(EmptyObject, d, r))]

\* saveToken(domain, tokenData): the file afterwards, and whether the call threw
saveToken(f, d, r) ==
  LET tokens == ExistingTokens(f) IN
    IF AssignThrows(tokens)
      THEN [threw |-> TRUE, file |-> f]
      ELSE [threw |-> FALSE, file |-> JSONstringify(SetProp(tokens, d, r))]

\* tokens[domain] (read) throws a TypeError on null
ReadThrows(v) == v.kind = "null"

\* mutant: no try/catch around the parse and the read
loadToken_NoCatch(f, d) ==
  IF ~existsSync(f)
    THEN [threw |-> FALSE, value |-> NoToken]
    ELSE IF JSONparse(f).threw \/ ReadThrows(JSONparse(f).value)
      THEN [threw |-> TRUE, value |-> NoToken]
      ELSE [threw |-> FALSE, value |-> GetProp(JSONparse(f).value, d)]

\* loadToken(domain): the returned value (NoToken for null), and whether the
\* call threw; the try block covers JSON.parse and the property read, and
\* `|| null` turns undefined into null
loadToken(f, d) ==
  IF ~existsSync(f)
    THEN [threw |-> FALSE, value |-> NoToken]
    ELSE IF JSONparse(f).threw \/ ReadThrows(JSONparse(f).value)
      THEN [threw |-> FALSE, value |-> NoToken]
      ELSE [threw |-> FALSE, value |-> GetProp(JSONparse(f).value, d)]

(***************************************************************************)
(* Bulk operations: the inputs of the tools and the answers of upstream.   *)
(***************************************************************************)
\* MAX_FULL_OBJECTS
MAX_FULL_OBJECTS == 1000

\* z.number().default(10) of sampleSize
DefaultSampleSize == 10

\* BulkOperation.status values the tools name
Statuses == {"CREATED", "RUNNING", "COMPLETED", "FAILED", "CANCELED"}

OperationIds == {"gid://shopify/BulkOperation/1"}

ResultUrl == "https://storage.example/result.jsonl"

\* a decimal string as the sequence of its digits
ObjectCounts == {<<3>>, <<5, 0, 0>>, <<1, 0, 0, 0>>, <<1, 0, 0, 1>>, <<1, 5, 0, 0>>}

\* parseInt(s, 10) of a string of decimal digits
parseInt(s) ==
  LET acc[i \in 0..Len(s)] == IF i = 0 THEN 0 ELSE 10 * acc[i - 1] + s[i]
  IN acc[Len(s)]

\* the operation data a snapshot query returns (the fields the results and
\* the status tool branch on)
Operations ==
  [id : OperationIds, status : Statuses, objectCount : ObjectCounts,
   url : {NULL, "", ResultUrl}, fileSize : {<<2, 0, 4, 8>>}]

\* BulkOperation.fileSize, a decimal string (<< >> for null): the sizes at
\* and around the two thresholds
FileSizes ==
  {<< >>, <<0>>, <<1>>, <<5, 0, 0>>, <<1, 0, 2, 3>>, <<1, 0, 2, 4>>, <<1, 0, 2, 5>>,
   <<1, 5, 3, 1>>, <<2, 0, 4, 8>>, <<1, 0, 4, 8, 5, 7, 5>>, <<1, 0, 4, 8, 5, 7, 6>>,
   <<1, 0, 4, 8, 5, 7, 7>>, <<5, 2, 4, 2, 8, 8, 0>>}

\* the operation data with the sizes varied and one object count
SizedOperations ==
  [id : OperationIds, status : Statuses, objectCount : {<<3>>},
   url : {NULL, "", ResultUrl}, fileSize : FileSizes]

NoOperation ==
  [id |-> NULL, status |-> NULL, objectCount |-> << >>, url |-> NULL,
   fileSize |-> << >>]

\* what shopifyClient.request gives for a snapshot query: operation data, null
\* (no such node, no current operation), or a thrown error
SnapshotAnswers ==
  [kind : {"data"}, op : Operations, userErrors : {<< >>}] \cup
  [kind : {"null", "threw"}, op : {NoOperation}, userErrors : {<< >>}]

SizedAnswers ==
  [kind : {"data"}, op : SizedOperations, userErrors : {<< >>}] \cup
  [kind : {"null", "threw"}, op : {NoOperation}, userErrors : {<< >>}]

\* what shopifyClient.request gives for bulkOperationRunQuery: the operation
\* created (or null) with the userErrors, or a thrown error
CreatedOperation ==
  [id |-> "gid://shopify/BulkOperation/1", status |-> "CREATED",
   objectCount |-> <<0>>, url |-> NULL, fileSize |-> << >>]

SubmitAnswers ==
  [kind : {"data"}, op : {NoOperation, CreatedOperation},
   userErrors : {<< >>, <<"Invalid query">>}] \cup
  [kind : {"threw"}, op : {NoOperation}, userErrors : {<< >>}]

NoReply == [kind |-> "none", op |-> NoOperation, userErrors |-> << >>]

\* the text of a result file as the sequence split("\n") makes of it, each
\* line by what it holds: 0 for nothing but whitespace, -1 for text that is
\* no JSON, i > 0 for the JSON value number i
LineCounts == {0, 3, 5, 500, 1000, 1001, 1500}

BadPatterns == {{}, {2}, {1, 3, 1000}}

\* `lead` blank lines, then `n` lines of which those in `bad` are no JSON,
\* then `trail` blank lines (trail = 1: the text ends with a line break)
MkText(lead, n, bad, trail) ==
  [k \in 1..(lead + n + trail) |->
     IF k <= lead \/ k > lead + n THEN 0
     ELSE IF (k - lead) \in bad THEN -1 ELSE k - lead]

Texts ==
  {MkText(lead, n, bad, trail) :
     lead \in 0..1, n \in LineCounts, bad \in BadPatterns, trail \in 0..1}

NoText == << >>

\* what fetch(url) gives: an ok response with its text, a response that is
\* not ok, or a thrown error
FetchAnswers ==
  [kind : {"ok"}, text : Texts] \cup [kind : {"notok", "threw"}, text : {NoText}]

NoFetch == [kind |-> "none", text |-> NoText]

\* the inputs of get-bulk-operation-results and get-bulk-operation-status
Formats == {"summary", "sample", "full"}

SampleSizes == {-1, 0, 2, DefaultSampleSize, MAX_FULL_OBJECTS + 1}

InputIds == {NULL, ""} \cup OperationIds

ResultsInputs ==
  [tool : {"results"}, operationId : InputIds, format : Formats,
   sampleSize : SampleSizes, type : {NULL}, customQuery : {NULL}]

StatusInputs ==
  [tool : {"status"}, operationId : InputIds, format : {NULL},
   sampleSize : {0}, type : {NULL}, customQuery : {NULL}]

\* the inputs of start-bulk-export: the type, and customQuery (absent, empty
\* or a query text)
ExportTypes == {"products", "orders", "customers", "inventory", "custom"}

StartInputs ==
  [tool : {"start"}, operationId : {NULL}, format : {NULL}, sampleSize : {0},
   type : ExportTypes, customQuery : {NULL, "", "{ shop { id } }"}]

NoInput ==
  [tool |-> "none", operationId |-> NULL, format |-> NULL, sampleSize |-> 0,
   type |-> NULL, customQuery |-> NULL]

\* a formatted size: `value` bytes, or `value` hundredths of a KB or MB
\* (toFixed(2)); NoSize for null
NoSize == [unit |-> "none", value |-> 0]

\* what a tool returns or throws (fileSizeBytes -1 for null; isComplete is
\* the field of the status tool)
NoResult ==
  [kind |-> "none", success |-> FALSE, found |-> FALSE, error |-> NULL,
   status |-> NULL, format |-> NULL, operationId |-> NULL, objects |-> << >>,
   count |-> 0, totalObjects |-> 0, truncated |-> FALSE, url |-> NULL,
   fileSize |-> NoSize, fileSizeBytes |-> -1, isComplete |-> FALSE]

(***************************************************************************)
(* Product tools: the inputs of bulk-update-products and                   *)
(* bulk-delete-products.                                                   *)
(***************************************************************************)
\* the products of the shop, by number
ProductNumbers == {1, 2}

\* the concurrent invocations
Calls == {1, 2}

\* an optional array of tags that is absent
NoTags == <<NULL>>

\* input.update, by its three tag fields
Updates ==
  { [tags |-> NoTags, addTags |-> <<"a">>, removeTags |-> NoTags],
    [tags |-> NoTags, addTags |-> <<"b">>, removeTags |-> NoTags],
    [tags |-> NoTags, addTags |-> <<"a", "c", "a">>, removeTags |-> <<"c">>],
    [tags |-> NoTags, addTags |-> NoTags, removeTags |-> <<"c">>],
    [tags |-> <<"b">>, addTags |-> <<"a">>, removeTags |-> NoTags],
    [tags |-> NoTags, addTags |-> NoTags, removeTags |-> NoTags] }

NoUpdate == [tags |-> NoTags, addTags |-> NoTags, removeTags |-> NoTags]

\* input.productIds: each id is the number alone or the GID (gid)
ProductIdLists ==
  { <<[gid |-> FALSE, n |-> 1]>>,
    <<[gid |-> TRUE, n |-> 1], [gid |-> FALSE, n |-> 2]>> }

\* the tags a product can have before the calls
InitialTags == {<< >>, <<"c">>}

\* what upstream answers to a productSet or productDelete mutation: done
\* without userErrors, userErrors, neither a product nor userErrors, or a
\* thrown error
MutationAnswers == {"ok", "userErrors", "empty", "threw"}

\* what upstream answers to the query of the tags
FetchTagAnswers == {"ok", "threw"}

NoCall ==
  [pc |-> "idle", tool |-> "none", productIds |-> << >>, update |-> NoUpdate,
   i |-> 0, currentTags |-> << >>, finalTags |-> NoTags, results |-> << >>]

(***************************************************************************)
(* Remote mode: the requests to /mcp and /messages.                        *)
(***************************************************************************)
\* the SSE connections one run accepts
MaxConnections == 3

ApiKeys == {NULL, "key", "wrong"}

\* a POST /messages: req.query.sessionId (0 for none; the k-th transport
\* has the id k, so the id beyond MaxConnections is one no transport ever
\* had) and req.query.apiKey; its body is JSON that express.json() parses
PostRequests == [sessionId : 0..(MaxConnections + 1), apiKey : ApiKeys]

\* how a POST /messages ended: the status the handler chain answered with
\* (0 when it answered nothing itself), and the transport the request was
\* handed to with the server connected to it (0 for none)
NoPost ==
  [sessionId |-> 0, apiKey |-> NULL, status |-> 0, transport |-> 0,
   server |-> 0]

\* what can happen inside the handler of GET /mcp
ConnectOutcomes == {"connected", "createThrows", "connectRejects"}

\* a request to /mcp that the key check turned away
RefusedConnection ==
  [state |-> "closed", status |-> 401, sessionId |-> 0, server |-> 0,
   listening |-> FALSE, connected |-> FALSE]

(***************************************************************************)
(* Startup: the configuration main() reads.                                *)
(***************************************************************************)
\* RUN_OAUTH, MYSHOPIFY_DOMAIN, SHOPIFY_CLIENT_ID, SHOPIFY_CLIENT_SECRET as
\* resolved from argv and the environment, argv.accessToken and
\* process.env.SHOPIFY_ACCESS_TOKEN
\* (in OAuth mode main() does not read the two tokens)
Configs ==
  [oauth : {TRUE}, domain : {NULL, "", "a.myshopify.com"},
   clientId : {NULL, "client-id"}, clientSecret : {NULL, "client-secret"},
   argToken : {NULL}, envToken : {NULL}] \cup
  [oauth : {FALSE}, domain : {NULL, "", "a.myshopify.com"},
   clientId : {NULL, "client-id"}, clientSecret : {NULL, "client-secret"},
   argToken : {NULL, "shpat_arg"}, envToken : {NULL, "shpat_env"}]

NoConfig ==
  [oauth |-> FALSE, domain |-> NULL, clientId |-> NULL, clientSecret |-> NULL,
   argToken |-> NULL, envToken |-> NULL]

NoClient == [accessToken |-> NULL, domain |-> NULL]

(***************************************************************************)
(* State.                                                                  *)
(*   tokenFile      content of ~/.shopify-mcp/tokens.json                  *)
(*   pc             position of runOAuthFlow                               *)
(*   failure        the error runOAuthFlow rejected with, NULL if none     *)
(*   domain         runOAuthFlow's domain argument                         *)
(*   expectedState  the nonce of this flow                                 *)
(*   server         the callback listener: none, listening, failing (the   *)
(*                  bind failed, its error event is queued), failed, closed*)
(*   promise        state of the promise startCallbackServer returned      *)
(*   cbValue        the value {code, shop} the promise resolved with       *)
(*   timer          the 5 minute timer: unset, armed, fired                *)
(*   log            the requests the listener answered, each with the      *)
(*                  status of its response                                 *)
(*   refused        the last request whose connection was refused          *)
(*   posts          codes of the token-exchange POSTs sent                 *)
(*   response       the answer of the token endpoint, once received        *)
(*   persists       number of saveToken calls made by the flow             *)
(*   tokenData      the value runOAuthFlow returned                        *)
(*   fileBefore     the file content when the flow started                 *)
(*   lastOp, written  the last direct saveToken/loadToken call, and the    *)
(*                  record last saved per domain                           *)
(*   tool           the input of the bulk tool invocation under way        *)
(*   bpc            its position: idle, query (a GraphQL request is out),  *)
(*                  download (the fetch of the result file is out), done   *)
(*   queries        the snapshot queries sent by the invocation            *)
(*   submissions    the bulk queries submitted by the invocation           *)
(*   downloads      the URLs fetched by the invocation                     *)
(*   reply          the answer of upstream to the GraphQL request          *)
(*   fetched        the answer to the fetch                                *)
(*   result         what the tool returned or threw                        *)
(*   mainpc         position of main(): start, oauth, server, exited       *)
(*   config         the configuration main() found                         *)
(*   client         the token and domain startServer was called with       *)
(*   exitCode       the code given to process.exit, -1 if none             *)
(*   shop           the tags upstream holds for each product               *)
(*   calls          the invocations of bulk-update-products and            *)
(*                  bulk-delete-products under way, each with its input,   *)
(*                  its position in the loop and its results so far        *)
(*   sessions       the session map of the remote mode                     *)
(*   conns          the SSE connections accepted so far, open or closed    *)
(*   lastPost       the last POST /messages and how it was answered        *)
(*   expectedKey    process.env.MCP_API_KEY                                *)
(***************************************************************************)
VARIABLES tokenFile, pc, failure, domain, expectedState, server, promise,
          cbValue, timer, log, refused, posts, response, persists, tokenData,
          fileBefore, lastOp, written, tool, bpc, queries, submissions,
          downloads, reply, fetched, result, mainpc, config, client,
          exitCode, shop, calls, sessions, conns, lastPost, expectedKey

flowVars == <<pc, failure, domain, expectedState, server, promise, cbValue,
              timer, log, refused, posts, response, persists, tokenData,
              fileBefore>>

storeVars == <<lastOp, written>>

bulkVars == <<tool, bpc, queries, submissions, downloads, reply, fetched,
              result>>

mainVars == <<mainpc, config, client, exitCode>>

prodVars == <<shop, calls>>

sessVars == <<sessions, conns, lastPost, expectedKey>>

vars == <<tokenFile, pc, failure, domain, expectedState, server, promise,
          cbValue, timer, log, refused, posts, response, persists, tokenData,
          fileBefore, lastOp, written, tool, bpc, queries, submissions,
          downloads, reply, fetched, result, mainpc, config, client,
          exitCode, shop, calls, sessions, conns, lastPost, expectedKey>>

NoOp == [op |-> "none", d |-> NULL, r |-> NoToken, before |-> FileAbsent,
         threw |-> FALSE, value |-> NoToken]

FlowIdle ==
  /\ pc = "NotStarted"
  /\ failure = NULL
  /\ domain = NULL
  /\ expectedState = NULL
  /\ server = "none"
  /\ promise = "none"
  /\ cbValue = NoCallback
  /\ timer = "unset"
  /\ log = << >>
  /\ posts = << >>
  /\ response = NoResponse
  /\ persists = 0
  /\ tokenData = NoToken
  /\ refused = NoRequest
  /\ fileBefore = tokenFile

\* no bulk tool has been invoked
BulkIdle ==
  /\ tool = NoInput
  /\ bpc = "idle"
  /\ queries = << >>
  /\ submissions = << >>
  /\ downloads = << >>
  /\ reply = NoReply
  /\ fetched = NoFetch
  /\ result = NoResult

\* no product tool has been invoked
ProdIdle ==
  /\ shop = [p \in ProductNumbers |-> << >>]
  /\ calls = [c \in Calls |-> NoCall]

\* the remote mode serves nothing
SessIdle ==
  /\ sessions = {}
  /\ conns = << >>
  /\ lastPost = NoPost
  /\ expectedKey = NULL

\* main() has not run
MainIdle ==
  /\ mainpc = "start"
  /\ config = NoConfig
  /\ client = NoClient
  /\ exitCode = -1

(***************************************************************************)
(* startCallbackServer: the promise, the listener and the timer.           *)
(***************************************************************************)
\* mutant: a later resolve/reject overwrites the settled promise
Settle_Overwrite(p, outcome) == outcome

\* resolve(...) / reject(...) of the promise: only the first call settles it
Settle(p, outcome) == IF p = "pending" THEN outcome ELSE p

\* the value the promise keeps: the one of the first resolve
SettleValue(p, old, new) == IF p = "pending" THEN new ELSE old

\* server.close(): a listening server stops listening, any other is left as it is
close(s) == IF s = "listening" THEN "closed" ELSE s

\* !code, !shop: a missing or empty query parameter
Missing(x) == x \in {NULL, ""}

\* mutant: the state parameter is not compared with the nonce
requestListener_NoStateCheck(req, expected) ==
  IF req.path # "/callback"
    THEN [status |-> 404, closes |-> FALSE, outcome |-> "none", value |-> NoCallback]
  ELSE IF Missing(req.code) \/ Missing(req.shop)
    THEN [status |-> 400, closes |-> TRUE, outcome |-> "MalformedCallbackError",
          value |-> NoCallback]
  ELSE [status |-> 200, closes |-> TRUE, outcome |-> "resolved",
        value |-> [code |-> req.code, shop |-> req.shop]]

\* mutant: code and shop are not checked
requestListener_NoMissingCheck(req, expected) ==
  IF req.path # "/callback"
    THEN [status |-> 404, closes |-> FALSE, outcome |-> "none", value |-> NoCallback]
  ELSE IF req.state # expected
    THEN [status |-> 400, closes |-> TRUE, outcome |-> "CsrfError",
          value |-> NoCallback]
  ELSE [status |-> 200, closes |-> TRUE, outcome |-> "resolved",
        value |-> [code |-> req.code, shop |-> req.shop]]

\* mutant: a request on another path ends the wait
requestListener_NotFoundRejects(req, expected) ==
  IF req.path # "/callback"
    THEN [status |-> 404, closes |-> TRUE, outcome |-> "MalformedCallbackError",
          value |-> NoCallback]
  ELSE IF req.state # expected
    THEN [status |-> 400, closes |-> TRUE, outcome |-> "CsrfError",
          value |-> NoCallback]
  ELSE IF Missing(req.code) \/ Missing(req.shop)
    THEN [status |-> 400, closes |-> TRUE, outcome |-> "MalformedCallbackError",
          value |-> NoCallback]
  ELSE [status |-> 200, closes |-> TRUE, outcome |-> "resolved",
        value |-> [code |-> req.code, shop |-> req.shop]]

\* mutant: the error branches reject without server.close()
requestListener_NoCloseOnError(req, expected) ==
  IF req.path # "/callback"
    THEN [status |-> 404, closes |-> FALSE, outcome |-> "none", value |-> NoCallback]
  ELSE IF req.state # expected
    THEN [status |-> 400, closes |-> FALSE, outcome |-> "CsrfError",
          value |-> NoCallback]
  ELSE IF Missing(req.code) \/ Missing(req.shop)
    THEN [status |-> 400, closes |-> FALSE, outcome |-> "MalformedCallbackError",
          value |-> NoCallback]
  ELSE [status |-> 200, closes |-> TRUE, outcome |-> "resolved",
        value |-> [code |-> req.code, shop |-> req.shop]]

\* the request listener given to http.createServer: the status it answers,
\* whether it closes the server, and how it settles the promise
requestListener(req, expected) ==
  IF req.path # "/callback"
    THEN [status |-> 404, closes |-> FALSE, outcome |-> "none", value |-> NoCallback]
  ELSE IF req.state # expected
    THEN [status |-> 400, closes |-> TRUE, outcome |-> "CsrfError",
          value |-> NoCallback]
  ELSE IF Missing(req.code) \/ Missing(req.shop)
    THEN [status |-> 400, closes |-> TRUE, outcome |-> "MalformedCallbackError",
          value |-> NoCallback]
  ELSE [status |-> 200, closes |-> TRUE, outcome |-> "resolved",
        value |-> [code |-> req.code, shop |-> req.shop]]

\* a request reaches the listening server and the listener answers it
HandleRequest(req) ==
  /\ server = "listening"
  /\ Len(log) < MaxRequests
  /\ LET h == requestListener(req, expectedState) IN
       /\ log' = Append(log, [req |-> req, status |-> h.status])
       /\ server' = IF h.closes THEN close(server) ELSE server
       /\ promise' = IF h.outcome = "none" THEN promise ELSE Settle(promise, h.outcome)
       /\ cbValue' = IF h.outcome = "resolved"
                       THEN SettleValue(promise, cbValue, h.value)
                       ELSE cbValue
  /\ UNCHANGED <<tokenFile, pc, failure, domain, expectedState, timer, posts,
                 persists, tokenData, fileBefore, lastOp, written,
                 refused, response>>
  /\ UNCHANGED <<bulkVars, mainVars, prodVars, sessVars>>

\* a request sent while no server listens on the port: the connection is
\* refused, no code of the flow runs
RefuseRequest(req) ==
  /\ pc # "NotStarted"
  /\ server # "listening"
  /\ refused' = req
  /\ UNCHANGED <<tokenFile, pc, failure, domain, expectedState, server, promise,
                 cbValue, timer, log, posts, response, persists, tokenData,
                 fileBefore, lastOp, written>>
  /\ UNCHANGED <<bulkVars, mainVars, prodVars, sessVars>>

\* server.on("error"): the listener could not bind the port
serverError ==
  /\ server = "failing"
  /\ server' = "failed"
  /\ promise' = Settle(promise, "ListenError")
  /\ UNCHANGED <<tokenFile, pc, failure, domain, expectedState, cbValue, timer,
                 log, posts, persists, tokenData, fileBefore, lastOp, written,
                 refused, response>>
  /\ UNCHANGED <<bulkVars, mainVars, prodVars, sessVars>>

\* mutant: the timer closes the server but does not reject
timeoutCallback_NoReject ==
  /\ timer = "armed"
  /\ timer' = "fired"
  /\ server' = close(server)
  /\ UNCHANGED <<tokenFile, pc, failure, domain, expectedState, promise, cbValue,
                 log, posts, persists, tokenData, fileBefore, lastOp, written,
                 refused, response>>
  /\ UNCHANGED <<bulkVars, mainVars, prodVars, sessVars>>

\* the setTimeout callback, 5 minutes after startCallbackServer
timeoutCallback ==
  /\ timer = "armed"
  /\ timer' = "fired"
  /\ server' = close(server)
  /\ promise' = Settle(promise, "TimeoutError")
  /\ UNCHANGED <<tokenFile, pc, failure, domain, expectedState, cbValue, log,
                 posts, persists, tokenData, fileBefore, lastOp, written,
                 refused, response>>
  /\ UNCHANGED <<bulkVars, mainVars, prodVars, sessVars>>

(***************************************************************************)
(* runOAuthFlow.                                                           *)
(***************************************************************************)
\* runOAuthFlow up to `await open(authUrl)`: the nonce is drawn, the callback
\* server is started (the bind succeeds or fails) and the timer is armed
runOAuthFlow(d, nonce, bound) ==
  /\ pc = "NotStarted"
  /\ pc' = "AwaitOpen"
  /\ domain' = d
  /\ expectedState' = nonce
  /\ promise' = "pending"
  /\ server' = IF bound THEN "listening" ELSE "failing"
  /\ timer' = "armed"
  /\ fileBefore' = tokenFile
  /\ UNCHANGED <<tokenFile, failure, cbValue, log, posts, persists, tokenData,
                 lastOp, written,
                 refused, response>>
  /\ UNCHANGED <<bulkVars, mainVars, prodVars, sessVars>>

\* open(authUrl) resolved: the flow goes on to `await callbackPromise`
openResolved ==
  /\ pc = "AwaitOpen"
  /\ pc' = "AwaitCallback"
  /\ UNCHANGED <<tokenFile, failure, domain, expectedState, server, promise,
                 cbValue, timer, log, posts, persists, tokenData, fileBefore,
                 lastOp, written,
                 refused, response>>
  /\ UNCHANGED <<bulkVars, mainVars, prodVars, sessVars>>

\* open(authUrl) rejected: runOAuthFlow rejects, nothing closes the server
openRejected ==
  /\ pc = "AwaitOpen"
  /\ pc' = "Failed"
  /\ failure' = "OpenError"
  /\ UNCHANGED <<tokenFile, domain, expectedState, server, promise, cbValue,
                 timer, log, posts, persists, tokenData, fileBefore, lastOp,
                 written,
                 refused, response>>
  /\ UNCHANGED <<bulkVars, mainVars, prodVars, sessVars>>

\* `await callbackPromise` returns or throws once the promise is settled; on a
\* value exchangeCodeForToken sends its POST with the code
awaitCallback ==
  /\ pc = "AwaitCallback"
  /\ promise \notin {"none", "pending"}
  /\ IF promise = "resolved"
       THEN /\ pc' = "AwaitExchange"
            /\ posts' = Append(posts, cbValue.code)
            /\ UNCHANGED failure
       ELSE /\ pc' = "Failed"
            /\ failure' = promise
            /\ UNCHANGED posts
  /\ UNCHANGED <<tokenFile, domain, expectedState, server, promise, cbValue,
                 timer, log, persists, tokenData, fileBefore, lastOp, written,
                 refused, response>>
  /\ UNCHANGED <<bulkVars, mainVars, prodVars, sessVars>>

\* mutant: response.ok is not checked, the body of an error response is read
\* like a token
exchangeCodeForToken_IgnoreStatus(resp, now) ==
  IF resp.kind = "neterr" THEN [threw |-> TRUE, error |-> "FetchError", value |-> NoToken]
  ELSE [threw |-> FALSE, error |-> NULL,
        value |-> [access_token |-> resp.access_token, scope |-> resp.scope,
                   obtained_at |-> now]]

\* exchangeCodeForToken after the fetch: the TokenData of an ok response, or
\* the error thrown
exchangeCodeForToken(resp, now) ==
  IF resp.kind = "neterr" THEN [threw |-> TRUE, error |-> "FetchError", value |-> NoToken]
  ELSE IF resp.kind = "notok"
    THEN [threw |-> TRUE, error |-> "TokenExchangeError", value |-> NoToken]
  ELSE [threw |-> FALSE, error |-> NULL,
        value |-> [access_token |-> resp.access_token, scope |-> resp.scope,
                   obtained_at |-> now]]

\* the token endpoint answered: exchangeCodeForToken returns or throws, then
\* saveToken(domain, tokenData) and the return of runOAuthFlow
exchangeDone(resp, now) ==
  /\ pc = "AwaitExchange"
  /\ response' = resp
  /\ LET x == exchangeCodeForToken(resp, now) IN
       IF x.threw
         THEN /\ pc' = "Failed"
              /\ failure' = x.error
              /\ UNCHANGED <<tokenFile, persists, tokenData>>
         ELSE LET res == saveToken(tokenFile, domain, x.value) IN
              /\ persists' = persists + 1
              /\ tokenFile' = res.file
              /\ IF res.threw
                   THEN /\ pc' = "Failed"
                        /\ failure' = "TypeError"
                        /\ UNCHANGED tokenData
                   ELSE /\ pc' = "Persisted"
                        /\ tokenData' = x.value
                        /\ UNCHANGED failure
  /\ UNCHANGED <<domain, expectedState, server, promise, cbValue, timer, log,
                 posts, fileBefore, lastOp, written, refused>>
  /\ UNCHANGED <<bulkVars, mainVars, prodVars, sessVars>>

\* the credential file a flow can find: absent, unparseable, JSON that is no
\* mapping, or a mapping holding another domain's or this domain's record
FlowInitFiles ==
  {FileAbsent, Garbage, JsonNull, JsonArray} \cup
  { [kind |-> "object",
     entries |-> << [key |-> d,
                     value |-> [access_token |-> "shpat_1",
                                scope |-> "read_products",
                                obtained_at |-> "T0"]] >>] : d \in Domains }

Init ==
  /\ tokenFile \in FlowInitFiles
  /\ lastOp = NoOp
  /\ written = [d \in Domains |-> NoToken]
  /\ FlowIdle
  /\ BulkIdle
  /\ MainIdle
  /\ ProdIdle
  /\ SessIdle

Next ==
  \/ \E d \in Domains, nonce \in Nonces, bound \in BOOLEAN : runOAuthFlow(d, nonce, bound)
  \/ \E req \in Requests : HandleRequest(req)
  \/ \E req \in Requests : RefuseRequest(req)
  \/ serverError
  \/ timeoutCallback
  \/ openResolved
  \/ openRejected
  \/ awaitCallback
  \/ \E resp \in Responses, now \in Times : exchangeDone(resp, now)

Spec == Init /\ [][Next]_vars

\* the event loop runs every queued callback: the timer, the error event and
\* the continuation of a settled await
LiveSpec ==
  Spec /\ WF_vars(timeoutCallback) /\ WF_vars(serverError) /\ WF_vars(awaitCallback)

(***************************************************************************)
(* Properties of the OAuth flow (specification Spec, LiveSpec).            *)
(***************************************************************************)
Settled == promise \notin {"none", "pending"}

\* the requests the listener answered at /callback
CallbackEntries == {i \in 1..Len(log) : log[i].req.path = "/callback"}

CsrfEntries == {i \in CallbackEntries : log[i].req.state # expectedState}

MalformedEntries ==
  {i \in CallbackEntries :
     /\ log[i].req.state = expectedState
     /\ Missing(log[i].req.code) \/ Missing(log[i].req.shop)}

\* C1: once a /callback request with a state other than the flow's nonce was
\* received, the promise is rejected with CsrfError, that request was answered
\* 400 and is the last one answered (no retry), the flow is not past the wait
\* and can only end failed, and no token-exchange POST was sent and nothing
\* was persisted.
C1_CsrfAbortsFlow ==
  CsrfEntries # {} =>
    /\ promise = "CsrfError"
    /\ CsrfEntries = {Len(log)}
    /\ log[Len(log)].status = 400
    /\ server = "closed"
    /\ pc \in {"AwaitOpen", "AwaitCallback", "Failed"}
    /\ pc = "Failed" => failure \in {"CsrfError", "OpenError"}
    /\ posts = << >>
    /\ response = NoResponse
    /\ persists = 0
    /\ tokenFile = fileBefore

C1_Witness ==
  /\ CsrfEntries # {}
  /\ pc = "Failed"
  /\ failure = "CsrfError"
  /\ timer = "fired"

\* C2: whenever the promise is settled (resolved, or rejected with CsrfError,
\* MalformedCallbackError or TimeoutError) the server is not listening, and
\* from then on no request is answered by the listener.
C2_ListenerClosedWhenSettled ==
  /\ [](promise \in {"resolved", "CsrfError", "MalformedCallbackError", "TimeoutError"}
          => server # "listening")
  /\ [][Settled => log' = log]_vars

C2_Witness ==
  /\ promise = "MalformedCallbackError"
  /\ server = "closed"
  /\ refused.path = "/callback"

\* C3: a settled promise keeps its outcome and its value under every later
\* event, and a flow sends at most one token-exchange POST and calls saveToken
\* at most once.
C3_SettlesOnce ==
  /\ [][Settled => promise' = promise /\ cbValue' = cbValue]_vars
  /\ [](Len(posts) <= 1 /\ persists <= 1)

C3_Witness ==
  /\ promise = "resolved"
  /\ timer = "fired"
  /\ refused.path = "/callback"
  /\ refused.state = expectedState
  /\ pc = "Persisted"
  /\ Len(posts) = 1
  /\ persists = 1

\* the order of the stages of runOAuthFlow
StageOrder ==
  \/ pc' = pc
  \/ pc = "NotStarted" /\ pc' = "AwaitOpen"
  \/ pc = "AwaitOpen" /\ pc' \in {"AwaitCallback", "Failed"}
  \/ pc = "AwaitCallback" /\ pc' \in {"AwaitExchange", "Failed"}
  \/ pc = "AwaitExchange" /\ pc' \in {"Persisted", "Failed"}

\* C4: the flow moves NotStarted -> awaiting authorization (AwaitOpen,
\* AwaitCallback) -> AwaitExchange -> Persisted, or to Failed; the POST is sent
\* only after a valid callback was answered, with its code; saveToken runs only
\* after an ok response of the token endpoint; and unless the flow reached
\* Persisted the credential file is as it was when the flow started.
C4_StagesAndStore ==
  /\ [][StageOrder]_vars
  /\ [](posts # << >> =>
          /\ promise = "resolved"
          /\ log # << >>
          /\ log[Len(log)].status = 200
          /\ log[Len(log)].req.state = expectedState
          /\ posts = << log[Len(log)].req.code >>)
  /\ [](persists > 0 => Len(posts) = 1 /\ response.kind = "ok")
  /\ [](pc = "Persisted" => persists = 1 /\ failure = NULL)
  /\ [](pc # "Persisted" => tokenFile = fileBefore)
  /\ [](pc \in {"AwaitExchange", "Persisted"} => promise = "resolved")

C4_Witness ==
  /\ pc = "Failed"
  /\ failure = "TokenExchangeError"
  /\ response.kind = "notok"
  /\ tokenFile.kind = "object"
  /\ tokenFile = fileBefore

\* C5: the wait always ends: a pending promise is eventually settled, and once
\* the timer has fired with the listener bound and no request answered at
\* /callback, the promise is rejected with TimeoutError.
C5_AlwaysTerminates ==
  /\ [](timer = "fired" /\ CallbackEntries = {} /\ server \notin {"failing", "failed"}
          => promise = "TimeoutError")
  /\ (promise = "pending") ~> Settled

C5_Witness ==
  /\ timer = "fired"
  /\ CallbackEntries = {}
  /\ Len(log) = MaxRequests
  /\ promise = "TimeoutError"
  /\ pc = "Failed"
  /\ failure = "TimeoutError"

\* C6: once a /callback request with the right state but without code or shop
\* was received, it was answered 400 and is the last one answered, the promise
\* is rejected with MalformedCallbackError, the listener is closed, the flow is
\* not past the wait, and no token-exchange POST was sent.
C6_MalformedCallback ==
  MalformedEntries # {} =>
    /\ MalformedEntries = {Len(log)}
    /\ log[Len(log)].status = 400
    /\ promise = "MalformedCallbackError"
    /\ server = "closed"
    /\ pc \in {"AwaitOpen", "AwaitCallback", "Failed"}
    /\ pc = "Failed" => failure \in {"MalformedCallbackError", "OpenError"}
    /\ posts = << >>
    /\ persists = 0

C6_Witness ==
  /\ MalformedEntries # {}
  /\ log[Len(log)].req.code = "code1"
  /\ log[Len(log)].req.shop = NULL
  /\ pc = "Failed"
  /\ failure = "MalformedCallbackError"

(***************************************************************************)
(* The credential store on its own: saveToken and loadToken applied in any *)
(* order to a file that starts absent, unparseable, or as JSON that is no  *)
(* mapping; mappings arise from the saveToken calls.                       *)
(***************************************************************************)
StoreInitFiles == {FileAbsent, Garbage, JsonNull, JsonNumber, JsonArray, EmptyObject}

StoreInit ==
  /\ tokenFile \in StoreInitFiles
  /\ lastOp = NoOp
  /\ written = [d \in Domains |-> NoToken]
  /\ FlowIdle
  /\ BulkIdle
  /\ MainIdle
  /\ ProdIdle
  /\ SessIdle

PersistToken(d, r) ==
  LET res == saveToken(tokenFile, d, r) IN
    /\ tokenFile' = res.file
    /\ lastOp' = [op |-> "save", d |-> d, r |-> r, before |-> tokenFile,
                  threw |-> res.threw, value |-> NoToken]
    /\ written' = IF res.threw THEN written ELSE [written EXCEPT ![d] = r]
    /\ UNCHANGED <<flowVars, bulkVars, mainVars, prodVars, sessVars>>

LoadToken(d) ==
  LET res == loadToken(tokenFile, d) IN
    /\ lastOp' = [op |-> "load", d |-> d, r |-> NoToken, before |-> tokenFile,
                  threw |-> res.threw, value |-> res.value]
    /\ UNCHANGED <<tokenFile, written>>
    /\ UNCHANGED <<flowVars, bulkVars, mainVars, prodVars, sessVars>>

StoreNext ==
  \/ \E d \in Domains, r \in TokenData : PersistToken(d, r)
  \/ \E d \in Domains : LoadToken(d)

StoreSpec == StoreInit /\ [][StoreNext]_vars

(***************************************************************************)
(* Properties of the credential store (specification StoreSpec).           *)
(***************************************************************************)
\* the last call was saveToken(d, r) / loadToken(d)
Saved == lastOp.op = "save"

Loaded == lastOp.op = "load"

\* C7: after saveToken(d, r), whatever the file held before, the call has
\* returned and loadToken(d) returns a record equal to r.
C7_RoundTrip ==
  Saved =>
    /\ ~lastOp.threw
    /\ loadToken(tokenFile, lastOp.d) = [threw |-> FALSE, value |-> lastOp.r]

\* C8: loadToken never throws; it returns null when the file is absent, when it
\* is not JSON or not a mapping, and when no saveToken has written the domain;
\* a record it returns is the one the last saveToken of that domain wrote.
C8_LoadNeverThrows ==
  Loaded =>
    /\ ~lastOp.threw
    /\ lastOp.before.kind # "object" => lastOp.value = NoToken
    /\ written[lastOp.d] = NoToken => lastOp.value = NoToken
    /\ lastOp.value # NoToken =>
         lastOp.value \in TokenData /\ lastOp.value = written[lastOp.d]

C8_Witness ==
  /\ Loaded
  /\ lastOp.before.kind = "garbage"
  /\ lastOp.value = NoToken
  /\ ~lastOp.threw

\* C9: after saveToken(d, r) on a file holding a mapping, every other domain
\* loads what it loaded before the call, d loads r, and saveToken(d, r) applied
\* again returns normally and leaves the file as it is.
C9_IdempotentUpsert ==
  Saved /\ lastOp.before.kind = "object" =>
    /\ ~lastOp.threw
    /\ \A d2 \in Domains \ {lastOp.d} :
         loadToken(tokenFile, d2) = loadToken(lastOp.before, d2)
    /\ loadToken(tokenFile, lastOp.d).value = lastOp.r
    /\ saveToken(tokenFile, lastOp.d, lastOp.r) = [threw |-> FALSE, file |-> tokenFile]

C9_Witness ==
  /\ Saved
  /\ lastOp.before.kind = "object"
  /\ \E d2 \in Domains \ {lastOp.d} : loadToken(lastOp.before, d2).value # NoToken
  /\ loadToken(lastOp.before, lastOp.d).value \notin {NoToken, lastOp.r}

\* C10: saveToken(d, r) on a file whose content is no mapping (not JSON, or
\* JSON that is no object) does not throw, writes the mapping holding d alone,
\* and loadToken(d) then returns r.
C10_CorruptedOverwritten ==
  Saved /\ lastOp.before.kind \notin {"absent", "object"} =>
    /\ ~lastOp.threw
    /\ tokenFile = SetProp(EmptyObject, lastOp.d, lastOp.r)
    /\ loadToken(tokenFile, lastOp.d).value = lastOp.r

(***************************************************************************)
(* The bulk export tools.                                                  *)
(***************************************************************************)
\* the tool throws: the catch block rethrows with the cause in the message
Thrown(cause) == [NoResult EXCEPT !.kind = "threw", !.error = cause]

\* if (input.operationId) node(id: ...) else currentBulkOperation
snapshotQuery(input) ==
  IF input.operationId \notin {NULL, ""}
    THEN [field |-> "node", id |-> input.operationId]
    ELSE [field |-> "currentBulkOperation", id |-> NULL]

\* the invocation starts with clean per-call effects
Invoke(input) ==
  /\ mainpc = "server"
  /\ pc = "NotStarted"
  /\ bpc \in {"idle", "done"}
  /\ tool' = input
  /\ reply' = NoReply
  /\ fetched' = NoFetch
  /\ downloads' = << >>
  /\ UNCHANGED <<tokenFile, flowVars, storeVars, mainVars, prodVars, sessVars>>

\* ---- the byte sizes ----

\* (x / d).toFixed(2) as a number of hundredths: the nearest one, the larger
\* of two that are equally near
toFixed2(x, d) == (2 * 100 * x + d) \div (2 * d)

\* if (bytes > 1024 * 1024) MB else if (bytes > 1024) KB else bytes
formatBytes(bytes) ==
  IF bytes > 1024 * 1024
    THEN [unit |-> "MB", value |-> toFixed2(bytes, 1024 * 1024)]
  ELSE IF bytes > 1024
    THEN [unit |-> "KB", value |-> toFixed2(bytes, 1024)]
  ELSE [unit |-> "bytes", value |-> bytes]

\* data.fileSize ? parseInt(data.fileSize, 10) : null
fileSizeBytes(op) == IF op.fileSize = << >> THEN -1 ELSE parseInt(op.fileSize)

\* the status tool that renders by the decimal thresholds
statusFileSize_Decimal(op) ==
  IF op.fileSize = << >> THEN NoSize
  ELSE IF parseInt(op.fileSize) > 1000 * 1000
    THEN [unit |-> "MB", value |-> toFixed2(parseInt(op.fileSize), 1000 * 1000)]
  ELSE IF parseInt(op.fileSize) > 1000
    THEN [unit |-> "KB", value |-> toFixed2(parseInt(op.fileSize), 1000)]
  ELSE [unit |-> "bytes", value |-> parseInt(op.fileSize)]

\* the status tool: if (data.fileSize) { bytes = parseInt(...); ... }
statusFileSize(op) ==
  IF op.fileSize = << >> THEN NoSize ELSE formatBytes(parseInt(op.fileSize))

\* the results tool: fileSize = operationData.fileSize ? parseInt(...) : null;
\* if (fileSize) { ... }
resultsFileSize(op) ==
  IF fileSizeBytes(op) \in {-1, 0} THEN NoSize ELSE formatBytes(fileSizeBytes(op))

\* ---- get-bulk-operation-results ----

notFound_Never(ans) == FALSE

\* !operationData, !data
notFound(ans) == ans.kind = "null"

notCompleted_Never(op) == FALSE

\* operationData.status !== "COMPLETED"
notCompleted(op) == op.status # "COMPLETED"

resultsExpired_Never(op) == FALSE

\* !operationData.url
resultsExpired(op) == op.url \in {NULL, ""}

summaryOnly_Never(input) == FALSE

\* input.format === "summary"
summaryOnly(input) == input.format = "summary"

\* the part of execute between the snapshot query and the fetch: `done` says
\* whether the tool returns (or throws) without fetching
resultsOfSnapshot(input, ans) ==
  IF ans.kind = "threw"
    THEN [done |-> TRUE, result |-> Thrown("RequestError")]
  ELSE IF notFound(ans)
    THEN [done |-> TRUE,
          result |-> [NoResult EXCEPT !.kind = "returned", !.error = "NotFound"]]
  ELSE IF notCompleted(ans.op)
    THEN [done |-> TRUE,
          result |-> [NoResult EXCEPT !.kind = "returned", !.found = TRUE,
                        !.error = "NotCompleted", !.operationId = ans.op.id,
                        !.status = ans.op.status]]
  ELSE IF resultsExpired(ans.op)
    THEN [done |-> TRUE,
          result |-> [NoResult EXCEPT !.kind = "returned", !.found = TRUE,
                        !.error = "ResultsExpired", !.operationId = ans.op.id,
                        !.status = ans.op.status]]
  ELSE IF summaryOnly(input)
    THEN [done |-> TRUE,
          result |-> [NoResult EXCEPT !.kind = "returned", !.found = TRUE,
                        !.success = TRUE, !.format = "summary",
                        !.operationId = ans.op.id, !.status = ans.op.status,
                        !.totalObjects = parseInt(ans.op.objectCount),
                        !.url = ans.op.url,
                        !.fileSize = resultsFileSize(ans.op),
                        !.fileSizeBytes = fileSizeBytes(ans.op)]]
  ELSE [done |-> FALSE, result |-> NoResult]

RECURSIVE LeadingBlank(_, _)
\* the first index from i on whose line is not blank (Len + 1 if none)
LeadingBlank(text, i) ==
  IF i > Len(text) \/ text[i] # 0 THEN i ELSE LeadingBlank(text, i + 1)

RECURSIVE TrailingBlank(_, _)
\* the last index up to i whose line is not blank (0 if none)
TrailingBlank(text, i) ==
  IF i < 1 \/ text[i] # 0 THEN i ELSE TrailingBlank(text, i - 1)

\* jsonlContent.trim().split("\n"): the blank lines at both ends are cut; a
\* text with nothing else gives the one line ""
trimSplit(text) ==
  LET first == LeadingBlank(text, 1)
      last == TrailingBlank(text, Len(text))
  IN IF first > last THEN <<0>> ELSE SubSeq(text, first, last)

Min(a, b) == IF a <= b THEN a ELSE b

limit_SampleUncapped(input, lines) ==
  IF input.format = "sample" THEN Len(lines) ELSE Min(MAX_FULL_OBJECTS, Len(lines))

limit_FullUncapped(input, lines) ==
  IF input.format = "sample" THEN Min(input.sampleSize, Len(lines)) ELSE Len(lines)

\* const limit = input.format === "sample" ? Math.min(input.sampleSize,
\* lines.length) : Math.min(MAX_FULL_OBJECTS, lines.length)
limit(input, lines) ==
  IF input.format = "sample"
    THEN Min(input.sampleSize, Len(lines))
    ELSE Min(MAX_FULL_OBJECTS, Len(lines))

\* JSON.parse(line) throws
ParseThrows(line) == line <= 0

\* the parse that gives up at the first line that is no JSON
parseLines_StopAtMalformed(lines, n) ==
  LET head == IF n < 1 THEN << >> ELSE SubSeq(lines, 1, n)
      stop == CHOOSE i \in 1..(Len(head) + 1) :
                /\ i = Len(head) + 1 \/ ParseThrows(head[i])
                /\ \A j \in 1..(i - 1) : ~ParseThrows(head[j])
  IN SubSeq(head, 1, stop - 1)

\* for (i = 0; i < limit; i++) try { objects.push(JSON.parse(lines[i])) }
\* catch { skip the line }
parseLines(lines, n) ==
  LET head == IF n < 1 THEN << >> ELSE SubSeq(lines, 1, n)
  IN SelectSeq(head, LAMBDA line : ~ParseThrows(line))

\* the part of execute after the fetch
resultsOfFetch(input, op, ans) ==
  IF ans.kind = "threw" THEN Thrown("RequestError")
  ELSE IF ans.kind = "notok" THEN Thrown("DownloadError")
  ELSE
    LET lines == trimSplit(ans.text)
        objects == parseLines(lines, limit(input, lines))
        totalObjects == parseInt(op.objectCount)
    IN IF input.format = "sample"
         THEN [NoResult EXCEPT !.kind = "returned", !.found = TRUE,
                 !.success = TRUE, !.format = "sample", !.operationId = op.id,
                 !.status = op.status, !.totalObjects = totalObjects,
                 !.count = Len(objects), !.objects = objects]
         ELSE [NoResult EXCEPT !.kind = "returned", !.found = TRUE,
                 !.success = TRUE, !.format = "full", !.operationId = op.id,
                 !.status = op.status, !.totalObjects = totalObjects,
                 !.count = Len(objects), !.objects = objects,
                 !.truncated = (totalObjects > MAX_FULL_OBJECTS),
                 !.url = IF totalObjects > MAX_FULL_OBJECTS THEN op.url ELSE NULL]

\* execute up to the await of the snapshot query
getBulkOperationResults(input) ==
  /\ Invoke(input)
  /\ bpc' = "query"
  /\ queries' = <<snapshotQuery(input)>>
  /\ submissions' = << >>
  /\ result' = NoResult

\* the snapshot query is answered: the tool returns, or goes on to fetch(url)
resultsSnapshot(ans) ==
  /\ bpc = "query"
  /\ tool.tool = "results"
  /\ reply' = ans
  /\ LET r == resultsOfSnapshot(tool, ans) IN
       IF r.done
         THEN /\ bpc' = "done"
              /\ result' = r.result
              /\ UNCHANGED downloads
         ELSE /\ bpc' = "download"
              /\ downloads' = Append(downloads, ans.op.url)
              /\ UNCHANGED result
  /\ UNCHANGED <<tool, queries, submissions, fetched>>
  /\ UNCHANGED <<tokenFile, flowVars, storeVars, mainVars, prodVars, sessVars>>

\* the fetch is answered: the lines are parsed and the tool returns
resultsFetched(ans) ==
  /\ bpc = "download"
  /\ fetched' = ans
  /\ result' = resultsOfFetch(tool, reply.op, ans)
  /\ bpc' = "done"
  /\ UNCHANGED <<tool, queries, submissions, downloads, reply>>
  /\ UNCHANGED <<tokenFile, flowVars, storeVars, mainVars, prodVars, sessVars>>

\* ---- get-bulk-operation-status ----

\* the part of execute after the one request
statusOfSnapshot(input, ans) ==
  IF ans.kind = "threw" THEN Thrown("RequestError")
  ELSE IF notFound(ans)
    THEN [NoResult EXCEPT !.kind = "returned", !.error = "NotFound"]
  ELSE [NoResult EXCEPT !.kind = "returned", !.found = TRUE,
          !.isComplete = (ans.op.status = "COMPLETED"),
          !.operationId = ans.op.id, !.status = ans.op.status,
          !.totalObjects = parseInt(ans.op.objectCount), !.url = ans.op.url,
          !.fileSize = statusFileSize(ans.op),
          !.fileSizeBytes = fileSizeBytes(ans.op)]

\* execute up to the await of the request
getBulkOperationStatus(input) ==
  /\ Invoke(input)
  /\ bpc' = "query"
  /\ queries' = <<snapshotQuery(input)>>
  /\ submissions' = << >>
  /\ result' = NoResult

\* the status tool that asks again while the operation is under way
statusSnapshot_Poll(ans) ==
  /\ bpc = "query"
  /\ tool.tool = "status"
  /\ reply' = ans
  /\ IF ans.kind = "data" /\ ans.op.status \in {"CREATED", "RUNNING"}
       THEN /\ queries' = Append(queries, snapshotQuery(tool))
            /\ UNCHANGED <<bpc, result>>
       ELSE /\ result' = statusOfSnapshot(tool, ans)
            /\ bpc' = "done"
            /\ UNCHANGED queries
  /\ UNCHANGED <<tool, submissions, downloads, fetched>>
  /\ UNCHANGED <<tokenFile, flowVars, storeVars, mainVars, prodVars, sessVars>>

\* the request is answered and the tool returns
statusSnapshot(ans) ==
  /\ bpc = "query"
  /\ tool.tool = "status"
  /\ reply' = ans
  /\ result' = statusOfSnapshot(tool, ans)
  /\ bpc' = "done"
  /\ UNCHANGED <<tool, queries, submissions, downloads, fetched>>
  /\ UNCHANGED <<tokenFile, flowVars, storeVars, mainVars, prodVars, sessVars>>

\* ---- start-bulk-export ----

customQueryMissing_Never(input) == FALSE

\* case "custom": if (!input.customQuery) throw
customQueryMissing(input) ==
  input.type = "custom" /\ input.customQuery \in {NULL, ""}

\* the switch on input.type: the bulk query submitted
bulkQuery(input) ==
  IF input.type = "custom" THEN input.customQuery ELSE input.type

\* the start tool that does not look at userErrors
startOfReply_IgnoreUserErrors(input, ans) ==
  IF ans.kind = "threw" THEN Thrown("RequestError")
  ELSE IF ans.op = NoOperation THEN Thrown("NotCreated")
  ELSE [NoResult EXCEPT !.kind = "returned", !.found = TRUE, !.success = TRUE,
          !.operationId = ans.op.id, !.status = ans.op.status]

\* the part of execute after the mutation is answered
startOfReply(input, ans) ==
  IF ans.kind = "threw" THEN Thrown("RequestError")
  ELSE IF Len(ans.userErrors) > 0 THEN Thrown("UserErrors")
  ELSE IF ans.op = NoOperation THEN Thrown("NotCreated")
  ELSE [NoResult EXCEPT !.kind = "returned", !.found = TRUE, !.success = TRUE,
          !.operationId = ans.op.id, !.status = ans.op.status]

\* execute up to the await of the mutation, or to the throw of the switch
startBulkExport(input) ==
  /\ Invoke(input)
  /\ queries' = << >>
  /\ IF customQueryMissing(input)
       THEN /\ bpc' = "done"
            /\ submissions' = << >>
            /\ result' = Thrown("ValidationError")
       ELSE /\ bpc' = "submit"
            /\ submissions' = <<bulkQuery(input)>>
            /\ result' = NoResult

\* the mutation is answered and the tool returns or throws
startAnswered(ans) ==
  /\ bpc = "submit"
  /\ reply' = ans
  /\ result' = startOfReply(tool, ans)
  /\ bpc' = "done"
  /\ UNCHANGED <<tool, queries, submissions, downloads, fetched>>
  /\ UNCHANGED <<tokenFile, flowVars, storeVars, mainVars, prodVars, sessVars>>

\* the tools are registered by startServer: the server runs with its client
ServerRunning ==
  /\ mainpc = "server"
  /\ config = [NoConfig EXCEPT !.domain = "a.myshopify.com",
                 !.argToken = "shpat_arg"]
  /\ client = [accessToken |-> "shpat_arg", domain |-> "a.myshopify.com"]
  /\ exitCode = -1

BulkInit ==
  /\ tokenFile = FileAbsent
  /\ lastOp = NoOp
  /\ written = [d \in Domains |-> NoToken]
  /\ FlowIdle
  /\ BulkIdle
  /\ ServerRunning
  /\ ProdIdle
  /\ SessIdle

BulkNext ==
  \/ \E input \in ResultsInputs : getBulkOperationResults(input)
  \/ \E ans \in SnapshotAnswers : resultsSnapshot(ans)
  \/ \E ans \in FetchAnswers : resultsFetched(ans)
  \/ \E input \in StatusInputs : getBulkOperationStatus(input)
  \/ \E ans \in SnapshotAnswers : statusSnapshot(ans)
  \/ \E input \in StartInputs : startBulkExport(input)
  \/ \E ans \in SubmitAnswers : startAnswered(ans)

BulkSpec == BulkInit /\ [][BulkNext]_vars

(***************************************************************************)
(* Claims about get-bulk-operation-results.                                *)
(***************************************************************************)
\* the results tool has received the operation data `reply.op`
ResultsSaw == tool.tool = "results" /\ reply.kind = "data"

\* the results tool has fetched the result file and returned
ResultsParsed ==
  tool.tool = "results" /\ bpc = "done" /\ fetched.kind = "ok"

\* the text of a file of n lines, each a JSON value, with or without the
\* line break after the last line
FileOf(n) == {MkText(0, n, {}, 0), MkText(0, n, {}, 1)}

\* C14: whenever the results tool finds the operation in a status other than
\* COMPLETED it has, for each of the three formats, returned the failure
\* NotCompleted carrying that status, and it has fetched nothing and is not
\* fetching.
C14_NotCompleted ==
  (ResultsSaw /\ reply.op.status # "COMPLETED") =>
    /\ bpc = "done"
    /\ downloads = << >>
    /\ fetched = NoFetch
    /\ result.kind = "returned"
    /\ ~result.success
    /\ result.error = "NotCompleted"
    /\ result.status = reply.op.status

C14_Witness ==
  /\ ResultsSaw
  /\ tool.format = "full"
  /\ reply.op.status = "RUNNING"
  /\ reply.op.url = ResultUrl
  /\ result.error = "NotCompleted"
  /\ result.status = "RUNNING"

\* C15: whenever the results tool finds the operation COMPLETED without a
\* result URL it has, for each of the three formats, returned the failure
\* ResultsExpired, and it has fetched nothing and is not fetching.
C15_ResultsExpired ==
  (ResultsSaw /\ reply.op.status = "COMPLETED" /\ reply.op.url \in {NULL, ""}) =>
    /\ bpc = "done"
    /\ downloads = << >>
    /\ fetched = NoFetch
    /\ result.kind = "returned"
    /\ ~result.success
    /\ result.error = "ResultsExpired"

C15_Witness ==
  /\ ResultsSaw
  /\ tool.format = "sample"
  /\ reply.op.status = "COMPLETED"
  /\ reply.op.url = NULL
  /\ result.error = "ResultsExpired"

\* C16: an invocation of the results tool with format summary never fetches
\* the result URL; whenever the tool has fetched, the operation was COMPLETED
\* with a URL, the format was sample or full, and the one URL fetched is the
\* operation's.
C16_SummaryNeverDownloads ==
  tool.tool = "results" =>
    /\ tool.format = "summary" => (downloads = << >> /\ bpc # "download")
    /\ (downloads # << >> \/ bpc = "download") =>
         /\ reply.kind = "data"
         /\ reply.op.status = "COMPLETED"
         /\ reply.op.url \notin {NULL, ""}
         /\ tool.format \in {"sample", "full"}
         /\ downloads = <<reply.op.url>>

C16_Witness ==
  /\ ResultsSaw
  /\ tool.format = "summary"
  /\ reply.op.status = "COMPLETED"
  /\ reply.op.url = ResultUrl
  /\ bpc = "done"
  /\ result.success
  /\ downloads = << >>

C18_HardCap ==
  tool.tool = "results" => Len(result.objects) <= 1000

\* C19: format sample with a sampleSize >= 0 on a file of n well-formed lines
\* returns exactly the first min(sampleSize, n) objects of the file, in file
\* order.
C19_SampleSize ==
  \A n \in LineCounts :
    (/\ ResultsParsed
     /\ tool.format = "sample"
     /\ tool.sampleSize >= 0
     /\ fetched.text \in FileOf(n)) =>
      /\ result.success
      /\ Len(result.objects) = (IF tool.sampleSize < n THEN tool.sampleSize ELSE n)
      /\ result.count = Len(result.objects)
      /\ \A i \in 1..Len(result.objects) : result.objects[i] = i

C19_Witness ==
  /\ ResultsParsed
  /\ tool.format = "sample"
  /\ tool.sampleSize = 10
  /\ fetched.text \in FileOf(3)
  /\ result.objects = <<1, 2, 3>>

\* the cap of the format: sampleSize for sample, 1000 for full
Cap == IF tool.format = "sample" THEN tool.sampleSize ELSE 1000

\* the lines among the first min(k, Len(ls)) of ls that are JSON values, in
\* the order of ls
WellFormedAmong(ls, k) ==
  LET m == IF k < Len(ls) THEN k ELSE Len(ls)
  IN SelectSeq([i \in 1..m |-> ls[i]], LAMBDA line : line > 0)

\* C20 as stated: a file with malformed lines never fails the results tool,
\* and the objects returned are, in file order, the well-formed lines among
\* the first min(cap, totalLines) lines of the file.
C20_MalformedSkipped_Stated ==
  ResultsParsed =>
    /\ result.kind = "returned"
    /\ result.success
    /\ result.objects = WellFormedAmong(fetched.text, Cap)

\* C20: a file with malformed lines never fails the results tool, and the
\* objects returned are, in file order, the well-formed lines among the first
\* min(cap, totalLines) lines of the file's text once the whitespace at its
\* two ends is trimmed, totalLines counting the lines of the trimmed text.
C20_MalformedSkipped ==
  ResultsParsed =>
    LET ls == trimSplit(fetched.text) IN
      /\ result.kind = "returned"
      /\ result.success
      /\ result.objects = WellFormedAmong(ls, Cap)

C20_Witness ==
  /\ ResultsParsed
  /\ tool.format = "full"
  /\ fetched.text = MkText(0, 5, {2}, 1)
  /\ result.objects = <<1, 3, 4, 5>>

(***************************************************************************)
(* Startup: main() of index.ts.                                             *)
(***************************************************************************)
\* !x for a string or an absent value
Falsy(x) == x \in {NULL, ""}

oauthConfigMissing_NoSecretCheck(cfg) ==
  Falsy(cfg.domain) \/ Falsy(cfg.clientId)

\* the three checks of the OAuth mode, each ending in process.exit(1)
oauthConfigMissing(cfg) ==
  Falsy(cfg.domain) \/ Falsy(cfg.clientId) \/ Falsy(cfg.clientSecret)

\* the resolution that asks the store before the environment
resolveToken_StoreFirst(cfg, f) ==
  LET saved == IF Falsy(cfg.domain) THEN NoToken ELSE loadToken(f, cfg.domain).value
  IN IF ~Falsy(cfg.argToken) THEN cfg.argToken
     ELSE IF saved # NoToken THEN saved.access_token
     ELSE cfg.envToken

\* let accessToken = argv.accessToken || process.env.SHOPIFY_ACCESS_TOKEN;
\* if (!accessToken && MYSHOPIFY_DOMAIN) { savedToken = loadToken(...);
\* if (savedToken) accessToken = savedToken.access_token }
resolveToken(cfg, f) ==
  LET accessToken == IF ~Falsy(cfg.argToken) THEN cfg.argToken ELSE cfg.envToken
      savedToken == loadToken(f, cfg.domain).value
  IN IF Falsy(accessToken) /\ ~Falsy(cfg.domain) /\ savedToken # NoToken
       THEN savedToken.access_token
       ELSE accessToken

\* main() up to its first await: in OAuth mode the three checks, in server
\* mode the resolution of the token, the checks and the call of startServer
main(cfg) ==
  /\ mainpc = "start"
  /\ config' = cfg
  /\ IF cfg.oauth
       THEN IF oauthConfigMissing(cfg)
              THEN mainpc' = "exited" /\ exitCode' = 1 /\ UNCHANGED client
              ELSE mainpc' = "oauth" /\ UNCHANGED <<exitCode, client>>
       ELSE LET accessToken == resolveToken(cfg, tokenFile) IN
              IF Falsy(accessToken) \/ Falsy(cfg.domain)
                THEN mainpc' = "exited" /\ exitCode' = 1 /\ UNCHANGED client
                ELSE /\ mainpc' = "server"
                     /\ client' = [accessToken |-> accessToken, domain |-> cfg.domain]
                     /\ UNCHANGED exitCode
  /\ UNCHANGED <<tokenFile, flowVars, storeVars, bulkVars, prodVars, sessVars>>

\* await runOAuthFlow(MYSHOPIFY_DOMAIN, ...) of the OAuth mode
mainOAuth(nonce, bound) ==
  /\ mainpc = "oauth"
  /\ runOAuthFlow(config.domain, nonce, bound)

StartupNext ==
  \/ \E cfg \in Configs : main(cfg)
  \/ \E nonce \in Nonces, bound \in BOOLEAN : mainOAuth(nonce, bound)
  \/ \E req \in Requests : HandleRequest(req)
  \/ \E req \in Requests : RefuseRequest(req)
  \/ serverError
  \/ timeoutCallback
  \/ openResolved
  \/ openRejected
  \/ awaitCallback
  \/ \E resp \in Responses, now \in Times : exchangeDone(resp, now)

StartupSpec == Init /\ [][StartupNext]_vars

(***************************************************************************)
(* Claims about the startup.                                               *)
(***************************************************************************)
\* the token the credential store holds for the configured domain (NULL if
\* it holds none)
StoredToken ==
  IF Falsy(config.domain) \/ loadToken(tokenFile, config.domain).value = NoToken
    THEN NULL
    ELSE loadToken(tokenFile, config.domain).value.access_token

\* main() has gone through the server mode
ServerMode == mainpc \in {"server", "exited"} /\ ~config.oauth

\* C12 as stated: the GraphQL client is configured with the token of the
\* first source that provides one, in the order explicit argument, persisted
\* credential store, environment.
C12_TokenOrder_Stated ==
  (ServerMode /\ mainpc = "server") =>
    client.accessToken =
      (IF ~Falsy(config.argToken) THEN config.argToken
       ELSE IF ~Falsy(StoredToken) THEN StoredToken
       ELSE config.envToken)

\* C12: the GraphQL client is configured with the token of the first source
\* that provides one, in the order explicit argument, environment, persisted
\* credential store of the domain; with a domain and a token from any source
\* the server starts, and without a token from any source it does not.
C12_TokenOrder ==
  ServerMode =>
    /\ mainpc = "server" =>
         /\ client.domain = config.domain
         /\ client.accessToken =
              (IF ~Falsy(config.argToken) THEN config.argToken
               ELSE IF ~Falsy(config.envToken) THEN config.envToken
               ELSE StoredToken)
    /\ mainpc = "server" <=>
         /\ ~Falsy(config.domain)
         /\ ~Falsy(config.argToken) \/ ~Falsy(config.envToken) \/ ~Falsy(StoredToken)

C12_Witness ==
  /\ mainpc = "server"
  /\ Falsy(config.argToken)
  /\ config.envToken = "shpat_env"
  /\ StoredToken = "shpat_1"
  /\ client.accessToken = "shpat_env"

\* C13: in OAuth mode with domain, clientId or clientSecret missing the
\* process exits with code 1 and the flow never starts: no listener, no
\* browser, no token request, no write to the credential store, no client.
C13_ConfigurationError ==
  (/\ mainpc # "start"
   /\ config.oauth
   /\ Falsy(config.domain) \/ Falsy(config.clientId) \/ Falsy(config.clientSecret)) =>
    /\ mainpc = "exited"
    /\ exitCode = 1
    /\ FlowIdle
    /\ server = "none"
    /\ posts = << >>
    /\ persists = 0
    /\ tokenFile = fileBefore
    /\ client = NoClient

C13_Witness ==
  /\ mainpc = "exited"
  /\ config.oauth
  /\ config.domain = "a.myshopify.com"
  /\ config.clientId = "client-id"
  /\ Falsy(config.clientSecret)
  /\ exitCode = 1
  /\ FlowIdle

(***************************************************************************)
(* The operations of the core, one process at a time: a process in OAuth   *)
(* mode runs the flow and returns, a process in server mode serves the     *)
(* tools.                                                                  *)
(***************************************************************************)
\* main() has passed the three checks of the OAuth mode
OAuthMode ==
  /\ mainpc = "oauth"
  /\ config = [NoConfig EXCEPT !.oauth = TRUE, !.domain = "a.myshopify.com",
                 !.clientId = "client-id", !.clientSecret = "client-secret"]
  /\ client = NoClient
  /\ exitCode = -1

OpsInit ==
  \/ /\ tokenFile \in FlowInitFiles
     /\ lastOp = NoOp
     /\ written = [d \in Domains |-> NoToken]
     /\ FlowIdle
     /\ BulkIdle
     /\ OAuthMode
     /\ ProdIdle
     /\ SessIdle
  \/ BulkInit

OpsNext ==
  \/ \E nonce \in Nonces, bound \in BOOLEAN : mainOAuth(nonce, bound)
  \/ \E req \in Requests : HandleRequest(req)
  \/ \E req \in Requests : RefuseRequest(req)
  \/ serverError
  \/ timeoutCallback
  \/ openResolved
  \/ openRejected
  \/ awaitCallback
  \/ \E resp \in Responses, now \in Times : exchangeDone(resp, now)
  \/ \E input \in ResultsInputs : getBulkOperationResults(input)
  \/ \E ans \in SnapshotAnswers : resultsSnapshot(ans)
  \/ \E ans \in FetchAnswers : resultsFetched(ans)
  \/ \E input \in StatusInputs : getBulkOperationStatus(input)
  \/ \E ans \in SnapshotAnswers : statusSnapshot(ans)
  \/ \E input \in StartInputs : startBulkExport(input)
  \/ \E ans \in SubmitAnswers : startAnswered(ans)

OpsSpec == OpsInit /\ [][OpsNext]_vars

(***************************************************************************)
(* Claims about retries and polling.                                       *)
(***************************************************************************)
\* the flow sends at most one token request: one once the exchange is under
\* way or answered, whatever the answer
FlowNoRetry ==
  /\ Len(posts) <= 1
  /\ (pc \in {"AwaitExchange", "Persisted"} \/ response # NoResponse) => Len(posts) = 1
  /\ response # NoResponse => pc \in {"Persisted", "Failed"}

\* the status tool makes exactly one request, whatever the answer
StatusNoRetry ==
  tool.tool = "status" =>
    /\ Len(queries) = 1
    /\ submissions = << >>
    /\ downloads = << >>
    /\ reply # NoReply => bpc = "done"

\* the results tool makes exactly one snapshot query and at most one fetch,
\* whatever the answers
ResultsNoRetry ==
  tool.tool = "results" =>
    /\ Len(queries) = 1
    /\ submissions = << >>
    /\ Len(downloads) <= 1
    /\ reply.kind \in {"threw", "null"} => (bpc = "done" /\ downloads = << >>)
    /\ fetched # NoFetch => (bpc = "done" /\ Len(downloads) = 1)

\* C11 as stated: no operation retries or polls: the flow sends at most one
\* token request, the start tool exactly one submission, the status tool
\* exactly one request, the results tool one snapshot query and at most one
\* fetch, also when a request fails.
C11_NoRetry_Stated ==
  /\ FlowNoRetry
  /\ StatusNoRetry
  /\ ResultsNoRetry
  /\ tool.tool = "start" =>
       /\ Len(submissions) = 1
       /\ queries = << >>
       /\ downloads = << >>

\* C11: no operation retries or polls: the flow sends at most one token
\* request, the start tool at most one submission (exactly one unless the
\* input is rejected before submitting, and then none), the status tool
\* exactly one request, the results tool one snapshot query and at most one
\* fetch, also when a request fails.
C11_NoRetry ==
  /\ FlowNoRetry
  /\ StatusNoRetry
  /\ ResultsNoRetry
  /\ tool.tool = "start" =>
       /\ Len(submissions) =
            (IF tool.type = "custom" /\ tool.customQuery \in {NULL, ""} THEN 0 ELSE 1)
       /\ queries = << >>
       /\ downloads = << >>
       /\ reply # NoReply => bpc = "done"

C11_Witness ==
  /\ tool.tool = "start"
  /\ tool.type = "products"
  /\ reply.kind = "threw"
  /\ bpc = "done"
  /\ result.kind = "threw"
  /\ Len(submissions) = 1

(***************************************************************************)
(* Claims about not-found operations and about start-bulk-export.          *)
(***************************************************************************)
\* C21: when upstream knows no operation for the lookup (null for the id
\* given, or null for the current operation when no id is given) the status
\* tool and the results tool return a not-found value, they do not throw, and
\* the results tool fetches nothing.
C21_NotFound ==
  (tool.tool \in {"status", "results"} /\ reply.kind = "null") =>
    /\ bpc = "done"
    /\ result.kind = "returned"
    /\ ~result.found
    /\ ~result.success
    /\ result.error = "NotFound"
    /\ downloads = << >>
    /\ fetched = NoFetch
    /\ queries = <<snapshotQuery(tool)>>

C21_Witness ==
  /\ tool.tool = "results"
  /\ tool.format = "full"
  /\ tool.operationId \in OperationIds
  /\ reply.kind = "null"
  /\ result.kind = "returned"
  /\ result.error = "NotFound"

\* C22: the start tool with type custom and no customQuery throws the
\* validation error with nothing submitted; with a customQuery, the query
\* submitted is that text.
C22_CustomQuery ==
  (tool.tool = "start" /\ tool.type = "custom") =>
    IF tool.customQuery \in {NULL, ""}
      THEN /\ bpc = "done"
           /\ result.kind = "threw"
           /\ result.error = "ValidationError"
           /\ submissions = << >>
           /\ reply = NoReply
      ELSE submissions = <<tool.customQuery>>

C22_Witness ==
  /\ tool.tool = "start"
  /\ tool.type = "custom"
  /\ tool.customQuery = NULL
  /\ result.error = "ValidationError"
  /\ submissions = << >>

\* C23: the start tool returns a success value only when upstream created
\* an operation and reported no user errors, and the value carries that
\* operation's id; with user errors or without an operation the tool throws.
C23_StartSuccess ==
  (tool.tool = "start" /\ bpc = "done") =>
    /\ result.success =>
         /\ reply.kind = "data"
         /\ reply.userErrors = << >>
         /\ reply.op # NoOperation
         /\ result.operationId = reply.op.id
    /\ (reply.kind = "data" /\ (reply.userErrors # << >> \/ reply.op = NoOperation)) =>
         /\ result.kind = "threw"
         /\ ~result.success
         /\ result.operationId = NULL

C23_Witness ==
  /\ tool.tool = "start"
  /\ bpc = "done"
  /\ reply.kind = "data"
  /\ reply.userErrors # << >>
  /\ reply.op = CreatedOperation
  /\ result.kind = "threw"

(***************************************************************************)
(* The status tool and the results tool on the same snapshots, with the    *)
(* file sizes varied and small result files.                               *)
(***************************************************************************)
SmallFetchAnswers ==
  [kind : {"ok"}, text : {MkText(0, 3, {}, 1), MkText(1, 5, {2}, 0)}] \cup
  [kind : {"notok", "threw"}, text : {NoText}]

SnapshotNext ==
  \/ \E input \in StatusInputs : getBulkOperationStatus(input)
  \/ \E ans \in SizedAnswers : statusSnapshot(ans)
  \/ \E input \in ResultsInputs : getBulkOperationResults(input)
  \/ \E ans \in SizedAnswers : resultsSnapshot(ans)
  \/ \E ans \in SmallFetchAnswers : resultsFetched(ans)

SnapshotSpec == BulkInit /\ [][SnapshotNext]_vars

\* the tool has returned a value that reports the sizes of the operation:
\* the status tool for an operation found, the results tool for a summary
ReportsSize ==
  /\ bpc = "done"
  /\ reply.kind = "data"
  /\ result.kind = "returned"
  /\ \/ tool.tool = "status" /\ result.found
     \/ tool.tool = "results" /\ result.success /\ result.format = "summary"

\* C24: a size n the operation reports is rendered, by the status tool and
\* by the results tool alike, in bytes when n < 1024, in KB with two decimals
\* when 1024 <= n < 1048576, in MB with two decimals when n >= 1048576.
C24_ByteThresholds ==
  (ReportsSize /\ reply.op.fileSize # << >>) =>
    LET n == parseInt(reply.op.fileSize) IN
      /\ n < 1024 => result.fileSize = [unit |-> "bytes", value |-> n]
      /\ (1024 <= n /\ n < 1048576) =>
           /\ result.fileSize.unit = "KB"
           /\ 2 * 1024 * result.fileSize.value <= 2 * 100 * n + 1024
           /\ 2 * 1024 * result.fileSize.value > 2 * 100 * n - 1024
      /\ n >= 1048576 =>
           /\ result.fileSize.unit = "MB"
           /\ 2 * 1048576 * result.fileSize.value <= 2 * 100 * n + 1048576
           /\ 2 * 1048576 * result.fileSize.value > 2 * 100 * n - 1048576
\* what the status tool makes of the snapshot the results tool received
StatusView == statusOfSnapshot(tool, reply)

\* the results tool has returned or thrown after an answered snapshot query
ResultsDone == tool.tool = "results" /\ bpc = "done" /\ reply # NoReply

\* both tools look the operation up by id when one is given, else as the
\* current operation
SameLookup ==
  tool.tool \in {"status", "results"} =>
    queries = << IF tool.operationId \notin {NULL, ""}
                   THEN [field |-> "node", id |-> tool.operationId]
                   ELSE [field |-> "currentBulkOperation", id |-> NULL] >>

\* C30 as stated: on the same snapshot the two tools use the same lookup,
\* the results tool finds an operation exactly when the status tool does,
\* returns success exactly when the status tool reports isComplete with a
\* url that is not null, and reports the same objectCount, raw size and
\* formatted size.
C30_SnapshotAgreement_Stated ==
  /\ SameLookup
  /\ (ResultsDone /\ reply.kind # "threw") =>
       /\ (result.error # "NotFound") <=> StatusView.found
       /\ result.success <=> (StatusView.isComplete /\ StatusView.url # NULL)
       /\ (result.success /\ result.format = "summary") =>
            /\ result.totalObjects = StatusView.totalObjects
            /\ result.fileSizeBytes = StatusView.fileSizeBytes
            /\ result.fileSize = StatusView.fileSize

\* C30: on the same snapshot the two tools use the same lookup and the
\* results tool finds an operation exactly when the status tool does; it
\* gets past its checks of the snapshot exactly when the status tool reports
\* isComplete with a url that is neither null nor empty, and it then returns
\* success for summary, and for sample and full if the download succeeds;
\* it reports the same objectCount and raw size, and the same formatted size
\* whenever it reports a formatted size.
C30_SnapshotAgreement ==
  /\ SameLookup
  /\ (ResultsDone /\ reply.kind = "threw") =>
       (result.kind = "threw" /\ StatusView.kind = "threw")
  /\ (ResultsDone /\ reply.kind # "threw") =>
       LET passes == StatusView.isComplete /\ StatusView.url \notin {NULL, ""} IN
         /\ (result.error # "NotFound") <=> StatusView.found
         /\ result.success => passes
         /\ passes <=> (downloads # << >> \/ result.format = "summary")
         /\ (passes /\ (tool.format = "summary" \/ fetched.kind = "ok")) => result.success
         /\ result.success => result.totalObjects = StatusView.totalObjects
         /\ (result.success /\ result.format = "summary") =>
              /\ result.fileSizeBytes = StatusView.fileSizeBytes
              /\ result.url = StatusView.url
              /\ result.fileSize # NoSize => result.fileSize = StatusView.fileSize

C30_Witness ==
  /\ ResultsDone
  /\ tool.format = "summary"
  /\ result.success
  /\ reply.op.fileSize = <<2, 0, 4, 8>>
  /\ result.fileSize = [unit |-> "KB", value |-> 200]
  /\ StatusView.isComplete

(***************************************************************************)
(* Claims about the listener: other paths, and its release.                *)
(***************************************************************************)
\* the requests the listener answered on a path other than /callback
OtherPathEntries == {i \in 1..Len(log) : log[i].req.path # "/callback"}

\* the listener has just answered a request on a path other than /callback
AnswersOtherPath ==
  /\ Len(log') = Len(log) + 1
  /\ log'[Len(log')].req.path # "/callback"

\* C25: a request on a path other than /callback is answered 404 and leaves
\* the flow waiting: the step that answers it changes neither the promise,
\* nor its value, nor the listener, nor the position of the flow; and a valid
\* callback answered after such requests is answered 200 and resolves the
\* wait with its code and shop.
C25_OtherPath404 ==
  /\ [](\A i \in OtherPathEntries : log[i].status = 404)
  /\ [][AnswersOtherPath =>
          /\ promise' = promise
          /\ cbValue' = cbValue
          /\ server' = server
          /\ server' = "listening"
          /\ pc' = pc
          /\ timer' = timer]_vars
  /\ [](\A i \in CallbackEntries :
          (/\ \A j \in 1..(i - 1) : j \in OtherPathEntries
           /\ log[i].req.state = expectedState
           /\ ~Missing(log[i].req.code)
           /\ ~Missing(log[i].req.shop)) =>
            /\ log[i].status = 200
            /\ promise = "resolved"
            /\ cbValue = [code |-> log[i].req.code, shop |-> log[i].req.shop])

C25_Witness ==
  /\ Len(log) = 2
  /\ log[1].req.path # "/callback"
  /\ log[1].status = 404
  /\ log[2].req.path = "/callback"
  /\ log[2].status = 200
  /\ promise = "resolved"
  /\ pc = "AwaitExchange"

\* C26: when runOAuthFlow has ended, by returning or by throwing, its
\* listener is not bound.
C26_ListenerReleased ==
  pc \in {"Persisted", "Failed"} => server # "listening"

(***************************************************************************)
(* The product tools: bulk-update-products and bulk-delete-products.  Each *)
(* invocation walks input.productIds in order; every await of an upstream  *)
(* request is a point where another invocation may run.                    *)
(***************************************************************************)
\* the GID of a product id
normalizeProductId(id) == [gid |-> TRUE, n |-> id.n]

\* Array.prototype.includes
includes(tags, t) == \E k \in 1..Len(tags) : tags[k] = t

\* the loop over addTags: a tag is pushed unless the list has it by then
RECURSIVE pushMissing(_, _)
pushMissing(tags, add) ==
  IF add = << >> THEN tags
  ELSE pushMissing(IF includes(tags, Head(add)) THEN tags
                   ELSE Append(tags, Head(add)),
                   Tail(add))

\* the tags sent to productSet, NoTags when update names no tags at all
finalTags(update, currentTags) ==
  IF update.tags # NoTags THEN update.tags
  ELSE IF update.addTags # NoTags \/ update.removeTags # NoTags
  THEN LET added == IF update.addTags # NoTags
                    THEN pushMissing(currentTags, update.addTags)
                    ELSE currentTags
       IN  IF update.removeTags # NoTags
           THEN SelectSeq(added, LAMBDA t : ~includes(update.removeTags, t))
           ELSE added
  ELSE NoTags

\* an array is truthy even when it is empty
needsCurrentTags(update) ==
  update.addTags # NoTags \/ update.removeTags # NoTags

\* the call at the next await of its loop, or at its return
nextProduct(call) ==
  IF call.i = Len(call.productIds)
  THEN [call EXCEPT !.pc = "done"]
  ELSE IF call.tool = "bulk-update-products" /\ needsCurrentTags(call.update)
  THEN [call EXCEPT !.pc = "fetch", !.i = call.i + 1,
                    !.currentTags = << >>, !.finalTags = NoTags]
  ELSE [call EXCEPT !.pc = "mutate", !.i = call.i + 1,
                    !.currentTags = << >>,
                    !.finalTags = IF call.tool = "bulk-update-products"
                                  THEN finalTags(call.update, << >>)
                                  ELSE NoTags]

\* results.push for the product the call is at
push(call, success) ==
  [call EXCEPT !.results =
     Append(call.results,
            [productId |-> normalizeProductId(call.productIds[call.i]),
             success |-> success])]

\* the summary the call returns
summary(call) ==
  [total |-> Len(call.productIds),
   succeeded |-> Len(SelectSeq(call.results, LAMBDA r : r.success)),
   failed |-> Len(SelectSeq(call.results, LAMBDA r : ~r.success))]

\* bulk-update-products is invoked
bulkUpdateProducts(c, ids, update) ==
  /\ mainpc = "server"
  /\ calls[c].pc = "idle"
  /\ calls' = [calls EXCEPT ![c] =
       nextProduct([NoCall EXCEPT !.tool = "bulk-update-products",
                                  !.productIds = ids, !.update = update])]
  /\ UNCHANGED <<tokenFile, flowVars, storeVars, bulkVars, mainVars, shop,
                 sessVars>>

\* bulk-delete-products is invoked
bulkDeleteProducts(c, ids) ==
  /\ mainpc = "server"
  /\ calls[c].pc = "idle"
  /\ calls' = [calls EXCEPT ![c] =
       nextProduct([NoCall EXCEPT !.tool = "bulk-delete-products",
                                  !.productIds = ids])]
  /\ UNCHANGED <<tokenFile, flowVars, storeVars, bulkVars, mainVars, shop,
                 sessVars>>

\* the query of the product's tags is answered
tagsFetched(c, ans) ==
  /\ calls[c].pc = "fetch"
  /\ LET call == calls[c]
         n == call.productIds[call.i].n
     IN  calls' = [calls EXCEPT ![c] =
           IF ans = "ok"
           THEN [call EXCEPT !.pc = "mutate", !.currentTags = shop[n],
                             !.finalTags = finalTags(call.update, shop[n])]
           ELSE nextProduct(push(call, FALSE))]
  /\ UNCHANGED <<tokenFile, flowVars, storeVars, bulkVars, mainVars, shop,
                 sessVars>>

\* the productSet mutation is answered; upstream has set the tags it was
\* sent when it answers with the product
productSetAnswered(c, ans) ==
  /\ calls[c].pc = "mutate"
  /\ calls[c].tool = "bulk-update-products"
  /\ LET call == calls[c]
         n == call.productIds[call.i].n
     IN  /\ shop' = IF ans = "ok" /\ call.finalTags # NoTags
                    THEN [shop EXCEPT ![n] = call.finalTags]
                    ELSE shop
         /\ calls' = [calls EXCEPT ![c] =
              CASE ans = "userErrors" -> nextProduct(push(call, FALSE))
                [] ans = "ok" -> nextProduct(push(call, TRUE))
                [] ans = "threw" -> nextProduct(push(call, FALSE))
                [] OTHER -> nextProduct(call)]
  /\ UNCHANGED <<tokenFile, flowVars, storeVars, bulkVars, mainVars,
                 sessVars>>

\* the productDelete mutation is answered
productDeleteAnswered(c, ans) ==
  /\ calls[c].pc = "mutate"
  /\ calls[c].tool = "bulk-delete-products"
  /\ LET call == calls[c]
     IN  calls' = [calls EXCEPT ![c] =
           CASE ans = "userErrors" -> nextProduct(push(call, FALSE))
             [] ans = "threw" -> nextProduct(push(call, FALSE))
             [] OTHER -> nextProduct(push(call, TRUE))]
  /\ UNCHANGED <<tokenFile, flowVars, storeVars, bulkVars, mainVars, shop,
                 sessVars>>

ProductsInit ==
  /\ tokenFile = FileAbsent
  /\ lastOp = NoOp
  /\ written = [d \in Domains |-> NoToken]
  /\ FlowIdle
  /\ BulkIdle
  /\ ServerRunning
  /\ shop \in [ProductNumbers -> InitialTags]
  /\ calls = [c \in Calls |-> NoCall]
  /\ SessIdle

ProductsNext ==
  \/ \E c \in Calls, ids \in ProductIdLists, update \in Updates :
       bulkUpdateProducts(c, ids, update)
  \/ \E c \in Calls, ids \in ProductIdLists : bulkDeleteProducts(c, ids)
  \/ \E c \in Calls, ans \in FetchTagAnswers : tagsFetched(c, ans)
  \/ \E c \in Calls, ans \in MutationAnswers : productSetAnswered(c, ans)
  \/ \E c \in Calls, ans \in MutationAnswers : productDeleteAnswered(c, ans)

ProductsSpec == ProductsInit /\ [][ProductsNext]_vars

\* C27: a call of bulk-update-products or bulk-delete-products that has
\* returned holds one result for each input product id, in the order of the
\* input and under the product's GID, and the succeeded (deleted) and failed
\* counts of its summary add up to total, whatever upstream answered.
C27_OneResultPerId ==
  \A c \in Calls :
    calls[c].pc = "done" =>
      /\ Len(calls[c].results) = Len(calls[c].productIds)
      /\ \A k \in 1..Len(calls[c].results) :
           /\ k <= Len(calls[c].productIds)
           /\ calls[c].results[k].productId =
                normalizeProductId(calls[c].productIds[k])
      /\ summary(calls[c]).succeeded + summary(calls[c]).failed =
           summary(calls[c]).total

\* the tags of a list, as a set
TagSet(tags) == {tags[k] : k \in 1..Len(tags)}

\* an optional array of tags as a set, empty when absent
GivenTags(tags) == IF tags = NoTags THEN {} ELSE TagSet(tags)

\* call c has just been told that productSet updated its product
Updated(c) ==
  /\ calls[c].pc = "mutate"
  /\ calls[c].tool = "bulk-update-products"
  /\ Len(calls'[c].results) = Len(calls[c].results) + 1
  /\ calls'[c].results[Len(calls'[c].results)].success

\* C28, within one call: an update that productSet applied leaves the
\* product with update.tags when that is given; otherwise with the tags the
\* call read, plus addTags, minus removeTags, each once.
C28_TagSemantics ==
  [][\A c \in Calls :
       Updated(c) =>
         LET call == calls[c]
             after == shop'[call.productIds[call.i].n]
         IN  IF call.update.tags # NoTags
             THEN after = call.update.tags
             ELSE needsCurrentTags(call.update) =>
                    /\ TagSet(after) =
                         (TagSet(call.currentTags)
                            \cup GivenTags(call.update.addTags))
                           \ GivenTags(call.update.removeTags)
                    /\ Cardinality(TagSet(after)) = Len(after)]_vars

\* call c returned after productSet applied its update to product n
Succeeded(c, n) ==
  /\ calls[c].pc = "done"
  /\ calls[c].tool = "bulk-update-products"
  /\ \E k \in 1..Len(calls[c].results) :
       /\ calls[c].results[k].success
       /\ calls[c].results[k].productId.n = n

\* call c only adds tags
AddsOnly(c) ==
  /\ calls[c].update.tags = NoTags
  /\ calls[c].update.addTags # NoTags
  /\ calls[c].update.removeTags = NoTags

\* C28, across calls: when two calls that only add tags have both updated
\* the same product and returned, the product carries the tags of both.
C28_ConcurrentAdds ==
  \A n \in ProductNumbers :
    (\A c \in Calls : Succeeded(c, n) /\ AddsOnly(c)) =>
      \A c \in Calls : GivenTags(calls[c].update.addTags) \subseteq
                         TagSet(shop[n])

(***************************************************************************)
(* Remote mode: GET /mcp opens an SSE session, POST /messages hands a      *)
(* message to the transport of a session, and the close of the response of *)
(* GET /mcp ends the session.                                              *)
(***************************************************************************)
\* validateApiKey calls next()
validateApiKey(apiKey, expected) ==
  \/ expected = NULL
  \/ apiKey # NULL /\ apiKey = expected

\* the server instance made for the k-th connection
createMcpServer(k) == k

\* sessions.set(id, entry)
sessionsSet(map, entry) ==
  {e \in map : e.sessionId # entry.sessionId} \cup {entry}

\* sessions.delete(id), with the variant that forgets to
sessionsDelete_Keep(map, id) == map

sessionsDelete(map, id) == {e \in map : e.sessionId # id}

\* sessions.get(id), as the set of entries found
sessionsGet(map, id) == {e \in map : e.sessionId = id}

\* GET /mcp
getMcp(apiKey, outcome) ==
  /\ mainpc = "server"
  /\ Len(conns) < MaxConnections
  /\ LET k == Len(conns) + 1
         made == createMcpServer(k)
     IN  IF ~validateApiKey(apiKey, expectedKey)
         THEN /\ conns' = Append(conns, RefusedConnection)
              /\ UNCHANGED sessions
         ELSE IF outcome = "createThrows"
         THEN /\ conns' = Append(conns,
                   [RefusedConnection EXCEPT !.state = "open", !.status = 0])
              /\ UNCHANGED sessions
         ELSE /\ sessions' = sessionsSet(sessions,
                   [sessionId |-> k, server |-> made, transport |-> k])
              /\ conns' = Append(conns,
                   [state |-> "open", status |-> 200, sessionId |-> k,
                    server |-> made, listening |-> TRUE,
                    connected |-> (outcome = "connected")])
  /\ UNCHANGED <<tokenFile, flowVars, storeVars, bulkVars, mainVars,
                 prodVars, lastPost, expectedKey>>

\* the response of the k-th GET /mcp emits "close"
resClose(k) ==
  /\ k \in 1..Len(conns)
  /\ conns[k].state = "open"
  /\ conns' = [conns EXCEPT ![k].state = "closed"]
  /\ sessions' = IF conns[k].listening
                 THEN sessionsDelete(sessions, conns[k].sessionId)
                 ELSE sessions
  /\ UNCHANGED <<tokenFile, flowVars, storeVars, bulkVars, mainVars,
                 prodVars, lastPost, expectedKey>>

\* POST /messages: validateApiKey, then the handler
postMessages(req) ==
  /\ mainpc = "server"
  /\ LET answer(status) ==
           [sessionId |-> req.sessionId, apiKey |-> req.apiKey,
            status |-> status, transport |-> 0, server |-> 0]
         found == sessionsGet(sessions, req.sessionId)
     IN  lastPost' =
           IF ~validateApiKey(req.apiKey, expectedKey) THEN answer(401)
           ELSE IF req.sessionId = 0 THEN answer(400)
           ELSE IF found = {} THEN answer(404)
           ELSE LET session == CHOOSE e \in found : TRUE
                IN  [answer(0) EXCEPT
                       !.transport = session.transport,
                       !.server = IF conns[session.transport].connected
                                  THEN session.server ELSE 0]
  /\ UNCHANGED <<tokenFile, flowVars, storeVars, bulkVars, mainVars,
                 prodVars, sessions, conns, expectedKey>>

RemoteInit ==
  /\ tokenFile = FileAbsent
  /\ lastOp = NoOp
  /\ written = [d \in Domains |-> NoToken]
  /\ FlowIdle
  /\ BulkIdle
  /\ ServerRunning
  /\ ProdIdle
  /\ sessions = {}
  /\ conns = << >>
  /\ lastPost = NoPost
  /\ expectedKey \in {NULL, "key"}

RemoteNext ==
  \/ \E apiKey \in ApiKeys, outcome \in ConnectOutcomes :
       getMcp(apiKey, outcome)
  \/ \E k \in 1..MaxConnections : resClose(k)
  \/ \E req \in PostRequests : postMessages(req)

RemoteSpec == RemoteInit /\ [][RemoteNext]_vars

\* the session with this id has been opened and its connection has not
\* closed
OpenSession(id) ==
  /\ id \in 1..Len(conns)
  /\ conns[id].sessionId = id
  /\ conns[id].state = "open"

\* the map holds exactly the sessions whose connection is open
MapIsOpenSessions ==
  /\ {e.sessionId : e \in sessions} =
       {id \in 1..Len(conns) : OpenSession(id)}
  /\ \A e1, e2 \in sessions : e1.sessionId = e2.sessionId => e1 = e2

\* how the POST just answered must have ended, given the sessions it met
PostAnswer(p) ==
  /\ p.sessionId = 0 => p.status = 400 /\ p.transport = 0
  /\ p.sessionId # 0 /\ ~OpenSession(p.sessionId) =>
       p.status = 404 /\ p.transport = 0
  /\ OpenSession(p.sessionId) => p.transport = p.sessionId /\ p.status = 0

\* a POST is handed only to the transport of an open session, and the
\* server that handles it was made for that connection and no other
OwnSession(p) ==
  p.transport # 0 =>
    /\ OpenSession(p.sessionId)
    /\ p.transport = p.sessionId
    /\ p.server # 0 => p.server = conns[p.sessionId].server
    /\ \A j \in 1..Len(conns) :
         j # p.sessionId /\ p.server # 0 => conns[j].server # p.server

\* C29, as stated: the session map holds exactly the open sessions, and
\* every POST /messages ends with 400 when it has no sessionId, with 404 when
\* its sessionId is unknown or closed, and otherwise in the transport and
\* server of its own open session.
C29_Sessions_Stated ==
  /\ []MapIsOpenSessions
  /\ [][lastPost' # lastPost => PostAnswer(lastPost') /\ OwnSession(lastPost')
       ]_vars

\* C29, amended: the session map holds exactly the open sessions; no POST
\* is handed to a transport other than that of its own open session, and the
\* server handling it serves no other connection; a POST with a JSON body
\* that passes the API-key check ends with 400 when it has no sessionId,
\* with 404 when its sessionId is unknown or closed, and otherwise in the
\* transport of its session.  A POST that fails the key check ends with
\* 401, whatever its sessionId.
C29_Sessions ==
  /\ []MapIsOpenSessions
  /\ [][lastPost' # lastPost =>
          /\ OwnSession(lastPost')
          /\ IF ~validateApiKey(lastPost'.apiKey, expectedKey)
             THEN lastPost'.status = 401 /\ lastPost'.transport = 0
             ELSE PostAnswer(lastPost')
       ]_vars

\* a POST was handed to an open session after another session had closed,
\* with an API key configured
C29_Witness ==
  /\ expectedKey # NULL
  /\ lastPost.transport # 0
  /\ lastPost.server = lastPost.sessionId
  /\ OpenSession(lastPost.sessionId)
  /\ \E j \in 1..Len(conns) : conns[j].sessionId = j /\ conns[j].state = "closed"

====
